---- MODULE Spec2Model ----
(***************************************************************************)
(* Model of tools/writeback/wb_monitor.py: the poll loop of main(), the    *)
(* SIGINT handler, the per-queue sampler WbStats, the per-device           *)
(* aggregator BdiStats, the name filter and the two renderings of a        *)
(* record.  Names are sequences of one-character strings.                  *)
(***************************************************************************)
EXTENDS Integers, Sequences, FiniteSets, TLC

(* ------------------------------------------------------------------ *)
(* Bounds of the model                                                *)
(* ------------------------------------------------------------------ *)
MaxPasses == 2
MaxBdis == 2

(* ------------------------------------------------------------------ *)
(* Values the data source supplies (prog[...], lines 43-48)           *)
(* ------------------------------------------------------------------ *)
WB_RECLAIMABLE == 0
WB_WRITEBACK == 1
WB_DIRTIED == 2
WB_WRITTEN == 3
NR_WB_STAT_ITEMS == 4
NameColumn == 16
KiloShift == 10

\* None; as a string it is told from '' by nothing the program does (both are
\* falsy), as a compiled pattern it is told from one by having no branch
None == <<>>

VARIABLES
    args,        \* parsed command line: [bdi, interval, json, cgroup]
    PAGE_SHIFT,  \* prog['PAGE_SHIFT']
    bdi_list,    \* prog['bdi_list']: the devices and their writeback queues
    pc,          \* position of main()
    exit_req,    \* the global stop flag
    handler,     \* TRUE once signal.signal(SIGINT, sigint_handler) has run
    filter_re,   \* the compiled name filter, or None
    now,         \* Stats.now
    clock,       \* time.time()
    bi,          \* position of the device enumeration
    wi,          \* position of the queue enumeration
    bdi_stats,   \* the BdiStats object of the current device
    wb_stats,    \* the WbStats object of the current queue
    out,         \* standard output, one element per printed line
    passes,      \* history: for every started iteration, what it sampled
    intr,        \* history: where the first interrupt was raised
    sleeps       \* history: the number of calls of time.sleep

vars == <<args, PAGE_SHIFT, bdi_list, pc, exit_req, handler, filter_re, now,
          clock, bi, wi, bdi_stats, wb_stats, out, passes, intr, sleeps>>

(* ------------------------------------------------------------------ *)
(* Strings                                                            *)
(* ------------------------------------------------------------------ *)
Digits == <<"0", "1", "2", "3", "4", "5", "6", "7", "8", "9">>

RECURSIVE str(_)
str(n) == IF n < 10 THEN <<Digits[n + 1]>>
          ELSE str(n \div 10) \o <<Digits[(n % 10) + 1]>>

RECURSIVE Join(_, _)
Join(sep, parts) ==
    IF parts = <<>> THEN <<>>
    ELSE IF Len(parts) = 1 THEN parts[1]
    ELSE parts[1] \o sep \o Join(sep, Tail(parts))

\* s[-n:]
LastChars(s, n) == IF Len(s) <= n THEN s ELSE SubSeq(s, Len(s) - n + 1, Len(s))

(* ------------------------------------------------------------------ *)
(* re: the subset of patterns the model draws from (literals, ^, $,   *)
(* the | of the join, and an unbalanced parenthesis)                  *)
(* ------------------------------------------------------------------ *)
RECURSIVE Split(_, _)
Split(s, acc) ==
    IF s = <<>> THEN <<acc>>
    ELSE IF Head(s) = "|" THEN <<acc>> \o Split(Tail(s), <<>>)
    ELSE Split(Tail(s), Append(acc, Head(s)))

Malformed(re_str) == \E i \in 1..Len(re_str) : re_str[i] = "("

\* re.compile(re_str): the branches of the top-level alternation
Compile(re_str) == Split(re_str, <<>>)

\* the branch b matches s starting at offset i (0-based)
RECURSIVE MatchAt(_, _, _)
MatchAt(b, s, i) ==
    IF b = <<>> THEN TRUE
    ELSE IF Head(b) = "^" THEN i = 0 /\ MatchAt(Tail(b), s, i)
    ELSE IF Head(b) = "$" THEN i = Len(s) /\ MatchAt(Tail(b), s, i)
    ELSE i < Len(s) /\ s[i + 1] = Head(b) /\ MatchAt(Tail(b), s, i + 1)

\* mutant: re.match, anchored at the start of the name
Search_Match(re, s) == \E k \in 1..Len(re) : MatchAt(re[k], s, 0)

\* bool(pattern.search(s))
Search(re, s) ==
    \E i \in 0..Len(s) : \E k \in 1..Len(re) : MatchAt(re[k], s, i)

(* ------------------------------------------------------------------ *)
(* Unit converter                                                     *)
(* ------------------------------------------------------------------ *)
RECURSIVE Shl(_, _)
Shl(x, n) == IF n = 0 THEN x ELSE Shl(2 * x, n - 1)

K(x) == Shl(x, PAGE_SHIFT - KiloShift)

(* ------------------------------------------------------------------ *)
(* Stats, WbStats, BdiStats                                           *)
(* ------------------------------------------------------------------ *)
table_fmt == ~args.json
interval == args.interval
cgroup == args.cgroup

re_str == IF args.bdi # <<>> THEN Join(<<"|">>, args.bdi) ELSE None
\* the truth value of a string or None
Truthy(s) == s # None /\ s # <<>>

\* a table row prints no timestamp
NoTime == 0 - 1
Line(kind, ts, name, w, r, d, wr, bw) ==
    [kind |-> kind, timestamp |-> ts, name |-> name, writeback |-> w,
     reclaimable |-> r, dirtied |-> d, written |-> wr, avg_wb |-> bw]

BlankLine == Line("blank", NoTime, <<>>, 0, 0, 0, 0, 0)
table_header_str == Line("header", NoTime, <<>>, 0, 0, 0, 0, 0)

dict(self, t) ==
    Line("dict", t, self.name,
         self.stats[WB_WRITEBACK + 1], self.stats[WB_RECLAIMABLE + 1],
         self.stats[WB_DIRTIED + 1], self.stats[WB_WRITTEN + 1], self.avg_bw)

\* mutant: the columns follow the order of the enum
table_row_str_EnumOrder(self) ==
    Line("row", NoTime, LastChars(self.name, NameColumn),
         self.stats[WB_RECLAIMABLE + 1], self.stats[WB_WRITEBACK + 1],
         self.stats[WB_DIRTIED + 1], self.stats[WB_WRITTEN + 1], self.avg_bw)

table_row_str(self) ==
    Line("row", NoTime, LastChars(self.name, NameColumn),
         self.stats[WB_WRITEBACK + 1], self.stats[WB_RECLAIMABLE + 1],
         self.stats[WB_DIRTIED + 1], self.stats[WB_WRITTEN + 1], self.avg_bw)

\* mutant: the header is held back until the pass has been sampled
show_header_Deferred == <<>>

\* what Stats.show_header() prints
show_header == IF table_fmt THEN <<BlankLine, table_header_str>> ELSE <<>>

\* mutant: a record is stamped with a fresh reading of the clock
show_stats_Fresh(self) ==
    IF table_fmt THEN <<table_row_str(self)>> ELSE <<dict(self, clock)>>

\* what self.show_stats() prints
show_stats(self) ==
    IF table_fmt THEN <<table_row_str(self)>> ELSE <<dict(self, now)>>

\* mutant: negative raw counts are converted like the others
WbStats_NoClamp(wb) ==
    [name |-> wb.bdi \o <<"_">> \o
              (IF wb.is_default THEN <<"1">> ELSE str(wb.cgroup_id)),
     stats |-> [i \in 1..NR_WB_STAT_ITEMS |-> K(wb.stat[i])],
     avg_bw |-> K(wb.avg_write_bandwidth)]

WbStats(wb) ==
    [name |-> wb.bdi \o <<"_">> \o
              (IF wb.is_default THEN <<"1">> ELSE str(wb.cgroup_id)),
     stats |-> [i \in 1..NR_WB_STAT_ITEMS |->
                  IF wb.stat[i] >= 0 THEN K(wb.stat[i]) ELSE 0],
     avg_bw |-> K(wb.avg_write_bandwidth)]

\* mutant: the totals of the previous device are not cleared
BdiStats_Carry(bdi) == [bdi_stats EXCEPT !.name = bdi.dev_name]

BdiStats(bdi) ==
    [name |-> bdi.dev_name,
     stats |-> [i \in 1..NR_WB_STAT_ITEMS |-> 0],
     avg_bw |-> 0]

\* mutant: the bandwidth is subtracted instead of added
collectStats_Minus(self, w) ==
    [self EXCEPT !.stats = [i \in 1..NR_WB_STAT_ITEMS |-> @[i] + w.stats[i]],
                 !.avg_bw = @ - w.avg_bw]

collectStats(self, w) ==
    [self EXCEPT !.stats = [i \in 1..NR_WB_STAT_ITEMS |-> @[i] + w.stats[i]],
                 !.avg_bw = @ + w.avg_bw]

(* ------------------------------------------------------------------ *)
(* Inputs: command lines, page shifts, data sources                   *)
(* ------------------------------------------------------------------ *)
sda == <<"s", "d", "a">>
bdi0 == <<"b", "d", "i", "0">>
nvme0n1 == <<"n", "v", "m", "e", "0", "n", "1">>

Wb(dev, dflt, id, stat, bw) ==
    [bdi |-> dev, is_default |-> dflt, cgroup_id |-> id, stat |-> stat,
     avg_write_bandwidth |-> bw]

\* stat is indexed by the enum: reclaimable, writeback, dirtied, written
Bdis ==
    { [dev_name |-> bdi0,
       wb_list |-> << Wb(bdi0, TRUE, 0, <<10, 5, 20, 15>>, 0),
                      Wb(bdi0, FALSE, 42, <<2, 1, 4, 3>>, 0) >>],
      [dev_name |-> sda, wb_list |-> <<>>],
      [dev_name |-> nvme0n1,
       wb_list |-> << Wb(nvme0n1, TRUE, 0, <<0 - 1, 3, 0, 0 - 2>>, 5),
                      Wb(nvme0n1, FALSE, 7, <<1, 0 - 4, 6, 2>>, 3) >>] }

\* the data source's bandwidth estimate is an unsigned quantity
RawBandwidthOK(wb) == wb.avg_write_bandwidth >= 0

Sources ==
    { s \in UNION { [1..n -> Bdis] : n \in 0..MaxBdis } :
        /\ \A i, j \in DOMAIN s : i # j => s[i] # s[j]
        /\ \A i \in DOMAIN s : \A q \in DOMAIN s[i].wb_list :
              RawBandwidthOK(s[i].wb_list[q]) }

\* the system keeps writing between two passes: dirtied and written grow
Churn(src) ==
    [b \in DOMAIN src |->
       [src[b] EXCEPT !.wb_list =
          [q \in DOMAIN @ |->
             [@[q] EXCEPT !.stat[WB_DIRTIED + 1] = @ + 1,
                          !.stat[WB_WRITTEN + 1] = @ + 1]]]]

PatternLists ==
    { <<>>,
      << <<"^", "n", "v", "m", "e">> >>,
      << <<"d", "a">>, <<"i", "0", "$">> >>,
      << <<>> >>,
      << <<"(">> >> }

Intervals == {0 - 1, 0, 1}
PageShifts == {10, 12}

ArgsSet == [bdi : PatternLists, interval : Intervals,
            json : BOOLEAN, cgroup : BOOLEAN]

NoStats == [name |-> <<>>, stats |-> [i \in 1..NR_WB_STAT_ITEMS |-> 0],
            avg_bw |-> 0]

Terminal == {"done", "KeyboardInterrupt", "re.error", "ValueError",
             "FaultError"}

Init ==
    /\ args \in ArgsSet
    /\ PAGE_SHIFT \in PageShifts
    /\ bdi_list \in Sources
    /\ pc = "start"
    /\ exit_req = FALSE
    /\ handler = FALSE
    /\ filter_re = None
    /\ now = 0
    /\ clock = 1
    /\ bi = 0
    /\ wi = 0
    /\ bdi_stats = NoStats
    /\ wb_stats = NoStats
    /\ out = <<>>
    /\ passes = <<>>
    /\ intr = [phase |-> "none", npass |-> 0]
    /\ sleeps = 0

(* ------------------------------------------------------------------ *)
(* main()                                                             *)
(* ------------------------------------------------------------------ *)
\* mutant: a pattern that does not compile is dropped and the run goes on
CompileFilter_Lenient ==
    /\ pc = "start"
    /\ filter_re' = IF Truthy(re_str) /\ ~Malformed(re_str)
                    THEN Compile(re_str) ELSE None
    /\ pc' = "signal"
    /\ UNCHANGED <<args, PAGE_SHIFT, bdi_list, exit_req, handler, now, clock,
                   bi, wi, bdi_stats, wb_stats, out, passes, intr, sleeps>>

\* lines 131-136: the settings and the name filter
CompileFilter ==
    /\ pc = "start"
    /\ IF Truthy(re_str) /\ Malformed(re_str)
       THEN /\ pc' = "re.error"
            /\ UNCHANGED filter_re
       ELSE /\ filter_re' = IF Truthy(re_str) THEN Compile(re_str) ELSE None
            /\ pc' = "signal"
    /\ UNCHANGED <<args, PAGE_SHIFT, bdi_list, exit_req, handler, now, clock,
                   bi, wi, bdi_stats, wb_stats, out, passes, intr, sleeps>>

\* line 139
InstallHandler ==
    /\ pc = "signal"
    /\ handler' = TRUE
    /\ pc' = "loop"
    /\ UNCHANGED <<args, PAGE_SHIFT, bdi_list, exit_req, filter_re, now, clock,
                   bi, wi, bdi_stats, wb_stats, out, passes, intr, sleeps>>

\* mutant: while True
LoopCheck_NoCheck ==
    /\ pc = "loop"
    /\ Len(passes) < MaxPasses
    /\ pc' = "now"
    /\ UNCHANGED <<args, PAGE_SHIFT, bdi_list, exit_req, handler, filter_re,
                   now, clock, bi, wi, bdi_stats, wb_stats, out, passes, intr, sleeps>>

\* line 142: while not exit_req
LoopCheck ==
    /\ pc = "loop"
    /\ exit_req \/ Len(passes) < MaxPasses
    /\ pc' = IF exit_req THEN "done" ELSE "now"
    /\ UNCHANGED <<args, PAGE_SHIFT, bdi_list, exit_req, handler, filter_re,
                   now, clock, bi, wi, bdi_stats, wb_stats, out, passes, intr, sleeps>>

\* line 143: Stats.now = time.time()
CaptureNow ==
    /\ pc = "now"
    /\ now' = clock
    /\ clock' = clock + 1
    /\ passes' = Append(passes, [src |-> bdi_list, now |-> clock,
                                 at |-> Len(out)])
    /\ pc' = "header"
    /\ UNCHANGED <<args, PAGE_SHIFT, bdi_list, exit_req, handler, filter_re,
                   bi, wi, bdi_stats, wb_stats, out, intr, sleeps>>

\* mutant: the header is printed for the first iteration only
ShowHeader_Once ==
    /\ pc = "header"
    /\ out' = out \o (IF Len(passes) = 1 THEN show_header ELSE <<>>)
    /\ bi' = 0
    /\ pc' = "bdi"
    /\ UNCHANGED <<args, PAGE_SHIFT, bdi_list, exit_req, handler, filter_re,
                   now, clock, wi, bdi_stats, wb_stats, passes, intr, sleeps>>

\* line 144: Stats.show_header(), and the device enumeration starts
ShowHeader ==
    /\ pc = "header"
    /\ out' = out \o show_header
    /\ bi' = 0
    /\ pc' = "bdi"
    /\ UNCHANGED <<args, PAGE_SHIFT, bdi_list, exit_req, handler, filter_re,
                   now, clock, wi, bdi_stats, wb_stats, passes, intr, sleeps>>

\* line 148: the device is skipped
Rejected(name) == filter_re # None /\ ~Search(filter_re, name)

\* mutant: the device loop stops as soon as the stop flag is set
NextBdi_StopAware ==
    /\ pc = "bdi"
    /\ IF bi < Len(bdi_list) /\ ~exit_req
       THEN /\ bi' = bi + 1
            /\ bdi_stats' = BdiStats(bdi_list[bi + 1])
            /\ wi' = 0
            /\ pc' = IF Rejected(bdi_stats'.name) THEN "bdi" ELSE "wb"
       ELSE /\ pc' = "interval"
            /\ UNCHANGED <<bi, wi, bdi_stats>>
    /\ UNCHANGED <<args, PAGE_SHIFT, bdi_list, exit_req, handler, filter_re,
                   now, clock, wb_stats, out, passes, intr, sleeps>>

\* lines 146-149: the next device, its BdiStats, the filter
NextBdi ==
    /\ pc = "bdi"
    /\ IF bi < Len(bdi_list)
       THEN /\ bi' = bi + 1
            /\ bdi_stats' = BdiStats(bdi_list[bi + 1])
            /\ wi' = 0
            /\ pc' = IF Rejected(bdi_stats'.name) THEN "bdi" ELSE "wb"
       ELSE /\ pc' = "interval"
            /\ UNCHANGED <<bi, wi, bdi_stats>>
    /\ UNCHANGED <<args, PAGE_SHIFT, bdi_list, exit_req, handler, filter_re,
                   now, clock, wb_stats, out, passes, intr, sleeps>>

\* lines 151-153: the next queue, its WbStats, the accumulation
NextWb ==
    /\ pc = "wb"
    /\ IF wi < Len(bdi_list[bi].wb_list)
       THEN /\ wi' = wi + 1
            /\ wb_stats' = WbStats(bdi_list[bi].wb_list[wi + 1])
            /\ bdi_stats' = collectStats(bdi_stats, wb_stats')
            /\ pc' = "wb_show"
       ELSE /\ pc' = "bdi_show"
            /\ UNCHANGED <<wi, wb_stats, bdi_stats>>
    /\ UNCHANGED <<args, PAGE_SHIFT, bdi_list, exit_req, handler, filter_re,
                   now, clock, bi, out, passes, intr, sleeps>>

\* mutant: queue records are printed whatever the cgroup flag
ShowWb_Always ==
    /\ pc = "wb_show"
    /\ out' = out \o show_stats(wb_stats)
    /\ pc' = "wb"
    /\ UNCHANGED <<args, PAGE_SHIFT, bdi_list, exit_req, handler, filter_re,
                   now, clock, bi, wi, bdi_stats, wb_stats, passes, intr, sleeps>>

\* mutant: queue records are printed in table mode only
ShowWb_TableOnly ==
    /\ pc = "wb_show"
    /\ out' = IF cgroup /\ table_fmt THEN out \o show_stats(wb_stats) ELSE out
    /\ pc' = "wb"
    /\ UNCHANGED <<args, PAGE_SHIFT, bdi_list, exit_req, handler, filter_re,
                   now, clock, bi, wi, bdi_stats, wb_stats, passes, intr, sleeps>>

\* lines 154-155
ShowWb ==
    /\ pc = "wb_show"
    /\ out' = IF cgroup THEN out \o show_stats(wb_stats) ELSE out
    /\ pc' = "wb"
    /\ UNCHANGED <<args, PAGE_SHIFT, bdi_list, exit_req, handler, filter_re,
                   now, clock, bi, wi, bdi_stats, wb_stats, passes, intr, sleeps>>

\* mutant: a device whose queue list was empty prints nothing
ShowBdi_SkipEmpty ==
    /\ pc = "bdi_show"
    /\ out' = IF wi = 0
              THEN out
              ELSE out \o show_stats(bdi_stats) \o
                   (IF cgroup /\ table_fmt THEN <<BlankLine>> ELSE <<>>)
    /\ pc' = "bdi"
    /\ UNCHANGED <<args, PAGE_SHIFT, bdi_list, exit_req, handler, filter_re,
                   now, clock, bi, wi, bdi_stats, wb_stats, passes, intr, sleeps>>

\* lines 157-159
ShowBdi ==
    /\ pc = "bdi_show"
    /\ out' = out \o show_stats(bdi_stats) \o
              (IF cgroup /\ table_fmt THEN <<BlankLine>> ELSE <<>>)
    /\ pc' = "bdi"
    /\ UNCHANGED <<args, PAGE_SHIFT, bdi_list, exit_req, handler, filter_re,
                   now, clock, bi, wi, bdi_stats, wb_stats, passes, intr, sleeps>>

\* mutant: the one-shot exit is missing
IntervalCheck_NoBreak ==
    /\ pc = "interval"
    /\ pc' = "sleep"
    /\ UNCHANGED <<args, PAGE_SHIFT, bdi_list, exit_req, handler, filter_re,
                   now, clock, bi, wi, bdi_stats, wb_stats, out, passes, intr, sleeps>>

\* mutant: a stopping loop skips the sleep
IntervalCheck_StopAware ==
    /\ pc = "interval"
    /\ pc' = IF interval = 0 \/ exit_req THEN "done" ELSE "sleep"
    /\ UNCHANGED <<args, PAGE_SHIFT, bdi_list, exit_req, handler, filter_re,
                   now, clock, bi, wi, bdi_stats, wb_stats, out, passes, intr, sleeps>>

\* lines 161-162
IntervalCheck ==
    /\ pc = "interval"
    /\ pc' = IF interval = 0 THEN "done" ELSE "sleep"
    /\ UNCHANGED <<args, PAGE_SHIFT, bdi_list, exit_req, handler, filter_re,
                   now, clock, bi, wi, bdi_stats, wb_stats, out, passes, intr, sleeps>>

\* mutant: a negative interval is slept as no time at all
Sleep_Clamp ==
    /\ pc = "sleep"
    /\ sleeps' = sleeps + 1
    /\ pc' = "loop"
    /\ clock' = clock + (IF interval < 0 THEN 0 ELSE interval)
    /\ bdi_list' \in {bdi_list, Churn(bdi_list)}
    /\ UNCHANGED <<args, PAGE_SHIFT, exit_req, handler, filter_re, now,
                   bi, wi, bdi_stats, wb_stats, out, passes, intr>>

\* line 163: time.sleep(interval) refuses a negative length; an interrupted
\* sleep is resumed when the handler returns, so it lasts the whole interval
Sleep ==
    /\ pc = "sleep"
    /\ sleeps' = sleeps + 1
    /\ IF interval < 0
       THEN /\ pc' = "ValueError"
            /\ UNCHANGED <<clock, bdi_list>>
       ELSE /\ pc' = "loop"
            /\ clock' = clock + interval
            /\ bdi_list' \in {bdi_list, Churn(bdi_list)}
    /\ UNCHANGED <<args, PAGE_SHIFT, exit_req, handler, filter_re, now,
                   bi, wi, bdi_stats, wb_stats, out, passes, intr>>

(* ------------------------------------------------------------------ *)
(* SIGINT                                                             *)
(* ------------------------------------------------------------------ *)
Phase(p) ==
    IF p \in {"start", "signal"} THEN "pre"
    ELSE IF p = "loop" THEN "loop"
    ELSE IF p = "now" THEN "checked"
    ELSE IF p = "interval" THEN "tail"
    ELSE IF p = "sleep" THEN "sleep"
    ELSE "iter"

\* mutant: without the global statement the assignment is to a local
sigint_handler_Local == UNCHANGED exit_req

\* mutant: the handler flips the flag
sigint_handler_Toggle == exit_req' = ~exit_req

\* lines 124-127
sigint_handler == exit_req' = TRUE

\* SIGINT is delivered: to sigint_handler once it is installed, before that
\* to the interpreter's default handler, which raises KeyboardInterrupt
Interrupt ==
    /\ pc \notin Terminal
    /\ IF handler
       THEN /\ sigint_handler
            /\ UNCHANGED pc
       ELSE /\ pc' = "KeyboardInterrupt"
            /\ UNCHANGED exit_req
    /\ intr' = IF intr.phase = "none"
               THEN [phase |-> Phase(pc), npass |-> Len(passes)]
               ELSE intr
    /\ UNCHANGED <<args, PAGE_SHIFT, bdi_list, handler, filter_re, now, clock,
                   bi, wi, bdi_stats, wb_stats, out, passes, sleeps>>

\* the program's own steps: they are taken as long as the process runs
Main ==
    \/ CompileFilter
    \/ InstallHandler
    \/ LoopCheck
    \/ CaptureNow
    \/ ShowHeader
    \/ NextBdi
    \/ NextWb
    \/ ShowWb
    \/ ShowBdi
    \/ IntervalCheck
    \/ Sleep

Next == Main \/ Interrupt

Spec == Init /\ [][Next]_vars

FairSpec == Spec /\ WF_vars(Main)

(* ------------------------------------------------------------------ *)
(* A failing data source                                              *)
(* ------------------------------------------------------------------ *)
\* lines 146-153: a read of the data source (the next list entry, dev_name,
\* the fields of a queue) raises; nothing catches it and the process ends
SampleFault ==
    /\ pc \in {"bdi", "wb"}
    /\ pc' = "FaultError"
    /\ UNCHANGED <<args, PAGE_SHIFT, bdi_list, exit_req, handler, filter_re,
                   now, clock, bi, wi, bdi_stats, wb_stats, out, passes, intr,
                   sleeps>>

NextFault == Next \/ SampleFault

SpecFault == Init /\ [][NextFault]_vars

(* ------------------------------------------------------------------ *)
(* What a pass has to print, stated from the data it sampled          *)
(* ------------------------------------------------------------------ *)
RECURSIVE Sum(_)
Sum(xs) == IF xs = <<>> THEN 0 ELSE Head(xs) + Sum(Tail(xs))

RECURSIVE Pow2(_)
Pow2(n) == IF n = 0 THEN 1 ELSE 2 * Pow2(n - 1)

IsPrefix(a, b) == Len(a) <= Len(b) /\ a = SubSeq(b, 1, Len(a))

Render(self, t) == IF table_fmt THEN table_row_str(self) ELSE dict(self, t)

\* some pattern is found somewhere in the name, or there is no pattern
Accepted(name) ==
    \/ args.bdi = <<>>
    \/ \E k \in 1..Len(args.bdi) :
          \E i \in 0..Len(name) : MatchAt(args.bdi[k], name, i)

Samples(dev) == [k \in 1..Len(dev.wb_list) |-> WbStats(dev.wb_list[k])]

Total(dev) ==
    LET smp == Samples(dev)
    IN [name |-> dev.dev_name,
        stats |-> [i \in 1..NR_WB_STAT_ITEMS |->
                     Sum([k \in 1..Len(smp) |-> smp[k].stats[i]])],
        avg_bw |-> Sum([k \in 1..Len(smp) |-> smp[k].avg_bw])]

ExpectedDevice(dev, t) ==
    LET smp == Samples(dev)
    IN IF Accepted(dev.dev_name)
       THEN (IF cgroup
             THEN [k \in 1..Len(smp) |-> Render(smp[k], t)]
             ELSE <<>>)
            \o <<Render(Total(dev), t)>>
            \o (IF cgroup /\ table_fmt THEN <<BlankLine>> ELSE <<>>)
       ELSE <<>>

RECURSIVE ExpectedDevices(_, _)
ExpectedDevices(src, t) ==
    IF src = <<>> THEN <<>>
    ELSE ExpectedDevice(Head(src), t) \o ExpectedDevices(Tail(src), t)

ExpectedPass(p) ==
    (IF table_fmt THEN <<BlankLine, table_header_str>> ELSE <<>>)
    \o ExpectedDevices(passes[p].src, passes[p].now)

\* the lines pass p has printed so far
PassOut(p) ==
    SubSeq(out, passes[p].at + 1,
           IF p < Len(passes) THEN passes[p + 1].at ELSE Len(out))

MidPass == pc \in {"header", "bdi", "wb", "wb_show", "bdi_show"}

\* pass p is over
Over(p) == p < Len(passes) \/ ~MidPass

IsRecord(l) == l.kind \in {"row", "dict"}
Records(ls) == SelectSeq(ls, IsRecord)

ExpectedRecordCount(src) ==
    Sum([b \in 1..Len(src) |->
           IF Accepted(src[b].dev_name)
           THEN 1 + (IF cgroup THEN Len(src[b].wb_list) ELSE 0)
           ELSE 0])

RECURSIVE ExpectedOut(_)
\* the output of the first n passes, all of them complete
ExpectedOut(n) == IF n = 0 THEN <<>> ELSE ExpectedOut(n - 1) \o ExpectedPass(n)

\* the iteration the first interrupt fell into, or the one it precedes
InterruptedPass == intr.npass + (IF intr.phase = "checked" THEN 1 ELSE 0)

(* ------------------------------------------------------------------ *)
(* C1  One-shot termination                                           *)
(* ------------------------------------------------------------------ *)
\* C1 as stated: with interval 0 the loop ends only after exactly one full
\* iteration, whenever the interrupt was raised.
C1_OneShotWhatever ==
    (interval = 0 /\ pc = "done") => (Len(passes) = 1 /\ out = ExpectedPass(1))

\* C1 amended: with interval 0 the loop never sleeps and never comes back to
\* the loop check; it ends after exactly one full iteration, whatever
\* interrupts are raised once the first loop check has passed, and after no
\* iteration at all when the interrupt was raised between the installation
\* of the handler and the first loop check.
C1_OneShot ==
    interval = 0 =>
        /\ Len(passes) <= 1
        /\ sleeps = 0
        /\ pc # "sleep"
        /\ (pc = "loop" => passes = <<>>)
        /\ (pc = "done" =>
              IF intr.phase = "loop"
              THEN passes = <<>> /\ out = <<>>
              ELSE Len(passes) = 1 /\ out = ExpectedPass(1))

C1_Witness ==
    /\ interval = 0
    /\ pc = "done"
    /\ intr.phase = "iter"
    /\ exit_req
    /\ Len(Records(out)) >= 3

(* ------------------------------------------------------------------ *)
(* C2  No truncation on cancellation                                  *)
(* ------------------------------------------------------------------ *)
\* C2: an interrupt inside an iteration only sets the stop flag: every pass
\* that is over, the interrupted one included, has printed one record for
\* every matching device and, in cgroup mode, one for each of its queues; a
\* pass in progress has printed no more than that.
C2_NoTruncation ==
    \A p \in 1..Len(passes) :
        /\ Len(Records(PassOut(p))) <= ExpectedRecordCount(passes[p].src)
        /\ Over(p) =>
             Len(Records(PassOut(p))) = ExpectedRecordCount(passes[p].src)

C2_Witness ==
    /\ intr.phase = "iter"
    /\ pc = "done"
    /\ interval # 0
    /\ Len(passes) = intr.npass
    /\ Len(Records(PassOut(intr.npass))) >= 4

(* ------------------------------------------------------------------ *)
(* C3  Interrupt during the sleep                                     *)
(* ------------------------------------------------------------------ *)
C3_Case == interval > 0 /\ intr.phase = "sleep"

C3_Safe ==
    C3_Case =>
        /\ pc \in {"sleep", "loop", "done"}
        /\ Len(passes) = intr.npass
        /\ now = passes[intr.npass].now
        /\ out = ExpectedOut(intr.npass)

\* C3: after an interrupt raised during the interval sleep no iteration
\* starts (no timestamp, header or record), and the loop reaches DONE.
C3_InterruptInSleep == []C3_Safe /\ (C3_Case ~> pc = "done")

C3_Witness ==
    /\ C3_Case
    /\ pc = "done"
    /\ Len(passes) >= 1
    /\ Len(passes) < MaxPasses
    /\ out # <<>>

(* ------------------------------------------------------------------ *)
(* C4  The sleep of a stopping loop                                   *)
(* ------------------------------------------------------------------ *)
\* C4 as stated: with a non-zero interval, once an interrupt was raised
\* before the iteration completed, the sleep after that iteration is not
\* performed.
C4_NoSleepWhenStopping ==
    (interval > 0 /\ intr.phase \in {"checked", "iter"}) =>
        sleeps < InterruptedPass

\* C4 amended: with a non-zero interval, once an interrupt was raised before
\* the iteration completed, the loop starts no further iteration, and it
\* still calls the interval sleep after that iteration: it reaches DONE only
\* after as many sleeps as iterations, and only with a positive interval (a
\* negative one makes the sleep fail).
C4_SleepsThenDone ==
    (interval # 0 /\ intr.phase \in {"checked", "iter"}) =>
        /\ Len(passes) <= InterruptedPass
        /\ (pc \in {"done", "ValueError"} =>
              Len(passes) = InterruptedPass /\ sleeps = Len(passes))
        /\ (pc = "done" => interval > 0)

C4_Witness ==
    /\ interval > 0
    /\ intr.phase = "iter"
    /\ pc = "done"
    /\ sleeps = 1
    /\ Len(passes) = 1

(* ------------------------------------------------------------------ *)
(* C5  Aggregation                                                    *)
(* ------------------------------------------------------------------ *)
LastRecord == Records(out)[Len(Records(out))]

\* C5: while the queues of an accepted device are enumerated, its four
\* counters and its bandwidth are the sums over the queue samples enumerated
\* so far for that device in this iteration, and the record it then emits
\* carries the sums over all its queues.
C5_Aggregation ==
    /\ pc \in {"wb", "wb_show", "bdi_show"} =>
         /\ bdi_stats.name = bdi_list[bi].dev_name
         /\ \A i \in 1..NR_WB_STAT_ITEMS :
               bdi_stats.stats[i] =
                  Sum([k \in 1..wi |-> WbStats(bdi_list[bi].wb_list[k]).stats[i]])
         /\ bdi_stats.avg_bw =
               Sum([k \in 1..wi |-> WbStats(bdi_list[bi].wb_list[k]).avg_bw])
    /\ (pc = "bdi" /\ bi >= 1 /\ ~Rejected(bdi_list[bi].dev_name)) =>
         \E l \in {LastRecord} :
            /\ l.name = bdi_list[bi].dev_name
            /\ l.reclaimable = Total(bdi_list[bi]).stats[WB_RECLAIMABLE + 1]
            /\ l.writeback = Total(bdi_list[bi]).stats[WB_WRITEBACK + 1]
            /\ l.dirtied = Total(bdi_list[bi]).stats[WB_DIRTIED + 1]
            /\ l.written = Total(bdi_list[bi]).stats[WB_WRITTEN + 1]
            /\ l.avg_wb = Total(bdi_list[bi]).avg_bw

C5_Witness ==
    /\ pc = "bdi"
    /\ bi = 2
    /\ Len(passes) = 2
    /\ ~Rejected(bdi_list[1].dev_name)
    /\ ~Rejected(bdi_list[2].dev_name)
    /\ Len(bdi_list[1].wb_list) = 2
    /\ Len(bdi_list[2].wb_list) = 2
    /\ LastRecord.avg_wb > 0

(* ------------------------------------------------------------------ *)
(* C6  Filter gate                                                    *)
(* ------------------------------------------------------------------ *)
CountLines(ls, names) == Len(SelectSeq(ls, LAMBDA l : l.name \in names))

QueueNames(dev) ==
    LET smp == Samples(dev) IN { smp[k].name : k \in 1..Len(smp) }

\* C6: the queues of a device are enumerated only if no pattern was given or
\* some pattern is found in its name; a pass that is over has printed, for
\* each device, one total (the sum over all its queues) if the device is
\* accepted and none if not, and queue records only of accepted devices.
C6_FilterGate ==
    /\ pc \in {"wb", "wb_show", "bdi_show"} => Accepted(bdi_list[bi].dev_name)
    /\ \A p \in 1..Len(passes) :
          LET lines == Records(PassOut(p))
          IN \A b \in 1..Len(passes[p].src) :
                LET dev == passes[p].src[b]
                    ok == Accepted(dev.dev_name)
                    qn == QueueNames(dev)
                IN /\ ~ok => CountLines(lines, {dev.dev_name} \cup qn) = 0
                   /\ (ok /\ Over(p)) =>
                        /\ CountLines(lines, {dev.dev_name}) = 1
                        /\ CountLines(lines, qn) =
                              (IF cgroup THEN Len(dev.wb_list) ELSE 0)
                        /\ \E k \in 1..Len(lines) :
                              lines[k] = Render(Total(dev), passes[p].now)

C6_Witness ==
    /\ pc = "done"
    /\ Len(passes) = 1
    /\ Len(passes[1].src) = 2
    /\ args.bdi # <<>>
    /\ Accepted(passes[1].src[1].dev_name)
    /\ ~Accepted(passes[1].src[2].dev_name)
    /\ \E i \in 1..Len(args.bdi) : ~MatchAt(args.bdi[i], passes[1].src[1].dev_name, 0)
    /\ Len(Records(out)) = 3

(* ------------------------------------------------------------------ *)
(* C7  Output order                                                   *)
(* ------------------------------------------------------------------ *)
\* C7: each pass prints, device by device in enumeration order, in cgroup
\* mode the device's queue records in enumeration order and then its total,
\* otherwise the total alone; a pass in progress has printed a prefix of
\* that.
C7_OutputOrder ==
    \A p \in 1..Len(passes) :
        IF Over(p) THEN PassOut(p) = ExpectedPass(p)
        ELSE IsPrefix(PassOut(p), ExpectedPass(p))

C7_Witness ==
    /\ cgroup
    /\ pc = "sleep"
    /\ Len(passes) = 2
    /\ Len(Records(PassOut(2))) = 6
    /\ PassOut(2) # PassOut(1)

(* ------------------------------------------------------------------ *)
(* C8  End-to-end scenario                                            *)
(* ------------------------------------------------------------------ *)
ScenarioName == <<"b", "d", "i", "0">>

ScenarioSource ==
    << [dev_name |-> ScenarioName,
        wb_list |->
          << [bdi |-> ScenarioName, is_default |-> TRUE, cgroup_id |-> 0,
              stat |-> <<10, 5, 20, 15>>, avg_write_bandwidth |-> 0],
             [bdi |-> ScenarioName, is_default |-> FALSE, cgroup_id |-> 42,
              stat |-> <<2, 1, 4, 3>>, avg_write_bandwidth |-> 0] >>] >>

ScenarioPass(p) ==
    /\ PAGE_SHIFT = 12
    /\ cgroup
    /\ table_fmt
    /\ args.bdi = <<>>
    /\ passes[p].src = ScenarioSource
    /\ Over(p)

\* C8: in the scenario the pass prints the rows bdi0_1 (reclaimable 40,
\* writeback 20, dirtied 80, written 60, bandwidth 0), bdi0_42 (8, 4, 16, 12,
\* 0) and bdi0 (48, 24, 96, 72, 0).
C8_EndToEnd ==
    \A p \in 1..Len(passes) :
        ScenarioPass(p) =>
            Records(PassOut(p)) =
              << [kind |-> "row", timestamp |-> NoTime,
                  name |-> <<"b", "d", "i", "0", "_", "1">>,
                  reclaimable |-> 40, writeback |-> 20, dirtied |-> 80,
                  written |-> 60, avg_wb |-> 0],
                 [kind |-> "row", timestamp |-> NoTime,
                  name |-> <<"b", "d", "i", "0", "_", "4", "2">>,
                  reclaimable |-> 8, writeback |-> 4, dirtied |-> 16,
                  written |-> 12, avg_wb |-> 0],
                 [kind |-> "row", timestamp |-> NoTime,
                  name |-> <<"b", "d", "i", "0">>,
                  reclaimable |-> 48, writeback |-> 24, dirtied |-> 96,
                  written |-> 72, avg_wb |-> 0] >>

C8_Witness == pc = "done" /\ Len(passes) = 1 /\ ScenarioPass(1) /\ Len(out) = 6

(* ------------------------------------------------------------------ *)
(* C9  Conversion and clamping                                        *)
(* ------------------------------------------------------------------ *)
CounterFields(l) == {l.reclaimable, l.writeback, l.dirtied, l.written}

\* C9: each counter of a queue sample is raw * 2^(PAGE_SHIFT - 10) for a raw
\* count >= 0 and 0 for a negative one, and no printed record has a negative
\* counter.
C9_ConvertAndClamp ==
    /\ PAGE_SHIFT >= 10
    /\ pc = "wb_show" =>
         \A i \in 1..NR_WB_STAT_ITEMS :
            LET raw == bdi_list[bi].wb_list[wi].stat[i]
            IN wb_stats.stats[i] =
                  (IF raw >= 0 THEN raw * Pow2(PAGE_SHIFT - 10) ELSE 0)
    /\ \A k \in 1..Len(out) :
          IsRecord(out[k]) => \A c \in CounterFields(out[k]) : c >= 0

C9_Witness ==
    /\ pc = "bdi"
    /\ bi >= 1
    /\ Records(out) # <<>>
    /\ PAGE_SHIFT > 10
    /\ cgroup
    /\ \E k \in 1..Len(bdi_list[bi].wb_list) : \E i \in 1..NR_WB_STAT_ITEMS :
          bdi_list[bi].wb_list[k].stat[i] < 0
    /\ LastRecord.name = bdi_list[bi].dev_name
    /\ LastRecord.writeback > 0

(* ------------------------------------------------------------------ *)
(* C10  An interrupt leads to the exit                                *)
(* ------------------------------------------------------------------ *)
Interrupted == intr.phase \notin {"none", "pre"}

\* no iteration starts after the one the interrupt fell into
C10_Safe == Interrupted => Len(passes) <= InterruptedPass

\* C10: once an interrupt has been raised after the installation of the
\* handler, no iteration starts but the one in progress or already let in by
\* the loop check, and (the sleep returning, that is interval >= 0) the loop
\* reaches DONE.
C10_InterruptLeadsToExit ==
    /\ []C10_Safe
    /\ (Interrupted /\ interval >= 0) ~> (pc = "done")

C10_Witness ==
    /\ Interrupted
    /\ intr.phase = "checked"
    /\ interval > 0
    /\ pc = "done"
    /\ Len(passes) = 2
    /\ intr.npass = 1

(* ------------------------------------------------------------------ *)
(* C11  One header per iteration                                      *)
(* ------------------------------------------------------------------ *)
HeaderCount(ls) == Len(SelectSeq(ls, LAMBDA l : l.kind = "header"))

\* the header step of pass p has been taken
HeaderDone(p) == p < Len(passes) \/ pc # "header"

\* C11: in table mode every iteration, once past its header step, has
\* printed exactly one header line, as its second line after a blank one and
\* so before any of its records, also when no device exists or passes the
\* filter; in structured mode no header line is ever printed.
C11_HeaderPerIteration ==
    \A p \in 1..Len(passes) :
        LET po == PassOut(p)
        IN IF table_fmt
           THEN IF HeaderDone(p)
                THEN /\ Len(po) >= 2
                     /\ po[1].kind = "blank"
                     /\ po[2].kind = "header"
                     /\ HeaderCount(po) = 1
                ELSE po = <<>>
           ELSE HeaderCount(po) = 0

C11_Witness ==
    /\ table_fmt
    /\ pc = "sleep"
    /\ Len(passes) = 2
    /\ passes[1].src # <<>>
    /\ passes[2].src # <<>>
    /\ Records(out) = <<>>
    /\ HeaderCount(out) = 2

(* ------------------------------------------------------------------ *)
(* C12  A failing data source and the output of the pass              *)
(* ------------------------------------------------------------------ *)
\* C12 as stated: when the data source fails inside a pass, nothing of that
\* pass has been printed.
C12_NoPartialOutput ==
    pc = "FaultError" => PassOut(Len(passes)) = <<>>

\* C12 amended: when the data source fails inside a pass the process stops
\* and takes no further step (no retry); the passes before it are complete,
\* and what the failing pass had printed stays: a prefix of its output, with
\* the header in table mode.
C12_FaultStops ==
    pc = "FaultError" =>
        /\ ~ENABLED NextFault
        /\ Len(passes) >= 1
        /\ \A p \in 1..(Len(passes) - 1) : PassOut(p) = ExpectedPass(p)
        /\ IsPrefix(PassOut(Len(passes)), ExpectedPass(Len(passes)))
        /\ table_fmt => HeaderCount(PassOut(Len(passes))) = 1

C12_Witness ==
    /\ pc = "FaultError"
    /\ table_fmt
    /\ Len(passes) = 2
    /\ Len(Records(PassOut(2))) >= 2
    /\ PassOut(2) # ExpectedPass(2)

(* ------------------------------------------------------------------ *)
(* C13  The bandwidth is non-negative                                 *)
(* ------------------------------------------------------------------ *)
\* C13: the bandwidth of a queue sample is the raw estimate times
\* 2^(PAGE_SHIFT - 10), that of a device the running sum of its queues', and
\* the bandwidth of every printed record is >= 0.
C13_BandwidthNonNegative ==
    /\ pc = "wb_show" =>
         /\ RawBandwidthOK(bdi_list[bi].wb_list[wi])
         /\ wb_stats.avg_bw =
               bdi_list[bi].wb_list[wi].avg_write_bandwidth * Pow2(PAGE_SHIFT - 10)
         /\ wb_stats.avg_bw >= 0
    /\ bdi_stats.avg_bw >= 0
    /\ \A k \in 1..Len(out) : IsRecord(out[k]) => out[k].avg_wb >= 0

C13_Witness ==
    /\ pc = "done"
    /\ cgroup
    /\ PAGE_SHIFT = 12
    /\ \E k \in 1..Len(out) : out[k].avg_wb = 32
    /\ \E k \in 1..Len(out) : out[k].avg_wb = 20
    /\ \E k \in 1..Len(out) : out[k].avg_wb = 12

(* ------------------------------------------------------------------ *)
(* C14  A device without writeback queues                             *)
(* ------------------------------------------------------------------ *)
\* the records of pass p that carry the name of dev
RecordsOf(p, dev) ==
    LET Named(l) == l.name = dev.dev_name
    IN SelectSeq(Records(PassOut(p)), Named)

ZeroRecord(l) ==
    /\ l.writeback = 0
    /\ l.reclaimable = 0
    /\ l.dirtied = 0
    /\ l.written = 0
    /\ l.avg_wb = 0

\* C14: in every finished pass, with or without the cgroup flag and in both
\* output modes, a device that passes the filter and has no writeback queue
\* has exactly one record, its total, with the four counters and the
\* bandwidth equal to 0.
C14_ZeroQueueDevice ==
    \A p \in 1..Len(passes) :
        Over(p) =>
            \A b \in 1..Len(passes[p].src) :
                LET dev == passes[p].src[b]
                    recs == RecordsOf(p, dev)
                IN (dev.wb_list = <<>> /\ Accepted(dev.dev_name)) =>
                       /\ Len(recs) = 1
                       /\ ZeroRecord(recs[1])
                       /\ recs[1].kind = IF table_fmt THEN "row" ELSE "dict"

C14_Witness ==
    /\ pc = "done"
    /\ cgroup
    /\ args.bdi # <<>>
    /\ Len(passes) = 1
    /\ Len(passes[1].src) = 2
    /\ passes[1].src[1].dev_name = bdi0
    /\ passes[1].src[2].dev_name = sda
    /\ passes[1].src[2].wb_list = <<>>
    /\ Len(RecordsOf(1, passes[1].src[2])) = 1
    /\ Len(Records(out)) = 4

(* ------------------------------------------------------------------ *)
(* C15  One timestamp per iteration                                   *)
(* ------------------------------------------------------------------ *)
\* C15 as stated: every record a pass emits carries the timestamp that pass
\* captured.
C15_EveryRecordStamped ==
    \A p \in 1..Len(passes) :
        \A k \in 1..Len(PassOut(p)) :
            IsRecord(PassOut(p)[k]) => PassOut(p)[k].timestamp = passes[p].now

Stamps ==
    /\ now = IF passes = <<>> THEN 0 ELSE passes[Len(passes)].now
    /\ \A p \in 1..Len(passes) :
          LET po == PassOut(p)
          IN \A k \in 1..Len(po) :
                 /\ po[k].kind = "dict" => po[k].timestamp = passes[p].now
                 /\ po[k].kind # "dict" => po[k].timestamp = NoTime

\* C15: the timestamp is taken once per iteration, before anything of the
\* iteration is printed, and changes at no other step; every structured
\* record of the iteration carries that value, and a table row carries no
\* timestamp at all.
C15_SharedTimestamp ==
    /\ []Stamps
    /\ [][/\ now' # now =>
               /\ pc = "now"
               /\ pc' = "header"
               /\ out' = out
               /\ Len(passes') = Len(passes) + 1
               /\ passes'[Len(passes')].at = Len(out)
          /\ passes' # passes =>
               /\ pc = "now"
               /\ Len(passes') = Len(passes) + 1
               /\ now' = passes'[Len(passes')].now
               /\ now' = clock
               /\ clock' > clock
          /\ (pc = "now" /\ pc' # pc) => passes' # passes]_vars

C15_Witness ==
    /\ ~table_fmt
    /\ cgroup
    /\ pc = "sleep"
    /\ Len(passes) = 2
    /\ passes[1].now # passes[2].now
    /\ Len(PassOut(1)) >= 3
    /\ Len(PassOut(2)) >= 3
    /\ \A k \in 1..Len(PassOut(2)) : PassOut(2)[k].timestamp = passes[2].now
    /\ \A k \in 1..Len(PassOut(1)) : PassOut(1)[k].timestamp = passes[1].now

(* ------------------------------------------------------------------ *)
(* C16  The two output modes print the same records in the same order *)
(* ------------------------------------------------------------------ *)
\* a device whose name, and whose queues' names, exceed the name column
LongName ==
    <<"b", "a", "c", "k", "i", "n", "g", "-", "d", "e", "v", "i", "c", "e", "-", "0", "1", "7">>

LongBdi ==
    [dev_name |-> LongName,
     wb_list |-> << Wb(LongName, TRUE, 0, <<7, 0 - 3, 9, 8>>, 4),
                    Wb(LongName, FALSE, 9, <<1, 2, 3, 4>>, 1) >>]

\* data sources that list the long-named device
SourcesLong ==
    { s \in UNION { [1..n -> Bdis \cup {LongBdi}] : n \in 1..MaxBdis } :
        /\ \A i, j \in DOMAIN s : i # j => s[i] # s[j]
        /\ \E i \in DOMAIN s : s[i] = LongBdi
        /\ \A i \in DOMAIN s : \A q \in DOMAIN s[i].wb_list :
              RawBandwidthOK(s[i].wb_list[q]) }

InitLong ==
    /\ args \in ArgsSet
    /\ PAGE_SHIFT \in PageShifts
    /\ bdi_list \in SourcesLong
    /\ pc = "start"
    /\ exit_req = FALSE
    /\ handler = FALSE
    /\ filter_re = None
    /\ now = 0
    /\ clock = 1
    /\ bi = 0
    /\ wi = 0
    /\ bdi_stats = NoStats
    /\ wb_stats = NoStats
    /\ out = <<>>
    /\ passes = <<>>
    /\ intr = [phase |-> "none", npass |-> 0]
    /\ sleeps = 0

SpecLong == InitLong /\ [][Next]_vars

\* what a record is about, whatever the mode: name, writeback, reclaimable,
\* dirtied, written, bandwidth
Core(s) ==
    <<s.name, s.stats[WB_WRITEBACK + 1], s.stats[WB_RECLAIMABLE + 1],
      s.stats[WB_DIRTIED + 1], s.stats[WB_WRITTEN + 1], s.avg_bw>>

DeviceCores(dev) ==
    LET smp == Samples(dev)
    IN IF Accepted(dev.dev_name)
       THEN (IF cgroup THEN [k \in 1..Len(smp) |-> Core(smp[k])] ELSE <<>>)
            \o <<Core(Total(dev))>>
       ELSE <<>>

RECURSIVE PassCores(_)
PassCores(src) ==
    IF src = <<>> THEN <<>> ELSE DeviceCores(Head(src)) \o PassCores(Tail(src))

\* how many records the running pass has printed, from the position alone
PrintedSoFar ==
    IF pc = "header" THEN 0
    ELSE Len(PassCores(SubSeq(bdi_list, 1, bi - 1)))
         + (IF bi = 0 \/ ~Accepted(bdi_list[bi].dev_name) THEN 0
            ELSE IF pc = "bdi" THEN Len(DeviceCores(bdi_list[bi]))
            ELSE IF ~cgroup THEN 0
            ELSE IF pc = "wb_show" THEN wi - 1
            ELSE wi)

\* what an output line shows of a record
Shown(l) == <<l.name, l.writeback, l.reclaimable, l.dirtied, l.written, l.avg_wb>>

\* the one thing a mode does to the content of a record
InMode(c) == IF table_fmt THEN [c EXCEPT ![1] = LastChars(@, NameColumn)] ELSE c

\* C16: in either mode the records of a pass are, in order, the records of
\* the mode-free enumeration of the accepted devices (queues first if cgroup,
\* then the total), as many of them as the position in the pass implies, with
\* the same counters and bandwidth; the table mode shows the last 16
\* characters of the name, and only the table mode prints other lines
\* (blank and header).
C16_SameRecordsBothModes ==
    \A p \in 1..Len(passes) :
        LET po == PassOut(p)
            recs == Records(po)
            cores == PassCores(passes[p].src)
        IN /\ Len(recs) = IF Over(p) THEN Len(cores) ELSE PrintedSoFar
           /\ Len(recs) <= Len(cores)
           /\ \A k \in 1..Len(recs) :
                 /\ Shown(recs[k]) = InMode(cores[k])
                 /\ recs[k].kind = IF table_fmt THEN "row" ELSE "dict"
           /\ ~table_fmt => recs = po
           /\ \A k \in 1..Len(po) : po[k].kind \in {"row", "dict", "blank", "header"}

C16_Witness ==
    /\ table_fmt
    /\ cgroup
    /\ pc = "done"
    /\ Len(passes) = 2
    /\ Len(passes[2].src) = 2
    /\ passes[2].src[2].dev_name = LongName
    /\ Len(Records(PassOut(2))) = 6
    /\ Records(PassOut(2))[6].name # LongName
    /\ Records(PassOut(2))[6].name = LastChars(LongName, NameColumn)
    /\ Records(PassOut(2))[6].dirtied > Records(PassOut(1))[6].dirtied

(* ------------------------------------------------------------------ *)
(* C17  The life of the stop flag                                     *)
(* ------------------------------------------------------------------ *)
\* C17: exit_req starts false; the only step that changes it is the
\* installed handler, from false to true, and that step changes nothing else
\* of the program; once true it stays true, interrupts included; the loop
\* acts on it at "while not exit_req" only: from there it leaves iff the flag
\* is set, and everywhere else a step goes where it goes whatever the flag.
C17_StopFlagLifecycle ==
    /\ exit_req = FALSE
    /\ [][/\ exit_req' # exit_req =>
               /\ ~exit_req
               /\ exit_req'
               /\ handler
               /\ <<pc, out, passes, now, sleeps, bi, wi>>' =
                  <<pc, out, passes, now, sleeps, bi, wi>>
          /\ exit_req => exit_req'
          /\ (pc = "loop" /\ pc' # pc) =>
               pc' = IF exit_req THEN "done" ELSE "now"
          /\ (pc' = "done" /\ pc # "done") =>
               \/ pc = "loop" /\ exit_req
               \/ pc = "interval" /\ interval = 0
          /\ (pc = "interval" /\ pc' # pc) =>
               pc' = IF interval = 0 THEN "done" ELSE "sleep"
          /\ (pc = "bdi" /\ pc' # pc) =>
               pc' = IF bi = Len(bdi_list) THEN "interval" ELSE "wb"
          /\ (pc = "sleep" /\ pc' # pc) =>
               pc' = IF interval < 0 THEN "ValueError" ELSE "loop"]_vars

C17_Witness ==
    /\ exit_req
    /\ handler
    /\ pc = "wb_show"
    /\ interval > 0
    /\ intr.phase = "checked"
    /\ intr.npass = 1
    /\ Len(passes) = 2

(* ------------------------------------------------------------------ *)
(* C18  A pattern that does not compile                               *)
(* ------------------------------------------------------------------ *)
\* some pattern of the command line has an unbalanced parenthesis
BadPattern ==
    \E k \in 1..Len(args.bdi) :
        \E i \in 1..Len(args.bdi[k]) : args.bdi[k][i] = "("

NothingSampled ==
    /\ ~handler
    /\ ~exit_req
    /\ passes = <<>>
    /\ now = 0
    /\ out = <<>>
    /\ sleeps = 0
    /\ bi = 0
    /\ filter_re = None

\* C18: with a pattern that does not compile the process never gets past
\* the start: it ends there with re.error (or with KeyboardInterrupt if the
\* interrupt comes first), the handler is not installed, no timestamp is
\* taken and nothing is printed; re.error is raised for such patterns only
\* and ends the process.
C18_MalformedPatternFatal ==
    /\ BadPattern =>
         /\ pc \in {"start", "re.error", "KeyboardInterrupt"}
         /\ NothingSampled
         /\ pc = "start" => ENABLED CompileFilter
    /\ pc = "re.error" =>
         /\ BadPattern
         /\ NothingSampled
         /\ ~ENABLED Next

C18_Witness ==
    /\ pc = "re.error"
    /\ BadPattern
    /\ intr.phase = "none"
    /\ bdi_list # <<>>
    /\ out = <<>>

(* ------------------------------------------------------------------ *)
(* C19  A negative interval                                           *)
(* ------------------------------------------------------------------ *)
C19_Safe ==
    /\ interval < 0 =>
         /\ Len(passes) <= 1
         /\ pc = "done" => passes = <<>> /\ intr.phase = "loop"
         /\ pc = "interval" => Len(passes) = 1 /\ out = ExpectedPass(1) /\ sleeps = 0
         /\ pc = "sleep" => Len(passes) = 1 /\ out = ExpectedPass(1) /\ sleeps = 0
         /\ pc = "ValueError" =>
              /\ Len(passes) = 1
              /\ out = ExpectedPass(1)
              /\ sleeps = 1
              /\ ~ENABLED Next
    /\ pc = "ValueError" => interval < 0

\* C19: with an interval below 0 a pass that has started is printed in
\* full, whatever the interrupts, and is followed by the one call of sleep,
\* which fails with ValueError and ends the process; the loop never ends
\* normally after a pass and never starts a second one.
C19_NegativeInterval ==
    /\ []C19_Safe
    /\ (interval < 0 /\ Len(passes) = 1) ~> (pc = "ValueError")

C19_Witness ==
    /\ pc = "ValueError"
    /\ interval < 0
    /\ exit_req
    /\ intr.phase = "iter"
    /\ Len(passes) = 1
    /\ Len(Records(out)) >= 3
    /\ out = ExpectedPass(1)

====
